---- MODULE Spec2Model ----
(***************************************************************************)
(* News feed service (src/index.ts): the in-memory CacheLayer, the         *)
(* MessageQueue with its pool of FanoutWorkers, PostService, FanoutService *)
(* and NewsFeedService, driven by the HTTP handlers of the Bun server.     *)
(*                                                                         *)
(* JavaScript runs each handler to its next await without interruption, so *)
(* every action below is the code between two suspension points.           *)
(***************************************************************************)
EXTENDS Integers, Sequences, FiniteSets, TLC

\* ------------------------------------------------------------------ bounds
\* Largest value of the clock Date.now() reads.
MaxTime == 1
\* Largest number of createPost calls in a behaviour of Spec and FeedSpec.
MaxPosts == 2
\* Largest number of createPost calls in a behaviour of QueueSpec.
MaxJobs == 3
\* Largest worker pool handed to the MessageQueue constructor.
MaxWorkers == 2
\* Largest value a like counter is driven to in Spec, and how far beyond the
\* hot-cache threshold it is driven in HotSpec.
MaxLikes == 2

\* ------------------------------------------------------- program constants
\* addToNewsFeed keeps the latest 1000 items.
FeedCapacity == 1000
\* setPost promotes a post to the hot cache above 100 likes.
HotThreshold == 100
\* getNewsFeed(userId, limit = 20); the GET handler passes 20.
DefaultLimit == 20

\* --------------------------------------------------------------- inputs
\* An optional value (T | undefined, T | null) is a sequence of at most one
\* element: <<>> is undefined or null, <<x>> is the value x.
Undefined == <<>>
Some(x) == <<x>>
\* The users initSampleData registers.
SampleUsers == {"user1", "user2", "user3"}
\* User ids the handlers derive from auth tokens: the sample users and "1",
\* what the token user_1 of the usage examples yields (no such user exists).
UserIds == SampleUsers \cup {"1"}
\* {userId, body.content} of POST /v1/me/feed requests: user2 has a follower
\* from the start; "1" has none and is no registered user, and its request
\* leaves the content field out.
PostRequests == {<<"user2", Some("hello")>>, <<"1", Undefined>>}
\* Math.random().toString(36).substr(2, 9): the random suffix of a post id.
RandomSuffixes == {"a", "b"}
\* {targetUserId, userId} pairs of POST /v1/users/follow requests.
FollowRequests == {<<"1", "user2">>, <<"user2", "user2">>}
\* userId of POST /v1/posts/like requests.
Likers == {"user3"}
\* body.postId of POST /v1/posts/like requests (any string is accepted).
LikedPostIds == {<<0, "a">>}
\* userId of GET /v1/me/feed requests and the limits of getNewsFeed calls.
Readers == {"user3"}
Limits == {1, DefaultLimit}

VARIABLES
    clock,        \* Date.now()
    workers,      \* MessageQueue.workers: sequence of [id, busy]
    queue,        \* MessageQueue.queue: the backlog of FanoutMessages
    inProcess,    \* per worker: the message of its suspended process() call, if any
    newsFeeds,    \* CacheLayer.newsFeeds: userId -> array of NewsFeedItem
    posts,        \* CacheLayer.posts: postId -> Post
    hotCache,     \* CacheLayer.hotCache: postId -> Post
    users,        \* CacheLayer.users: userId -> User
    socialGraph,  \* CacheLayer.socialGraph: key -> Set of userId
    actions,      \* CacheLayer.actions: userId -> (postId -> true)
    counters,     \* CacheLayer.counters: postId -> {likes, replies}
    pending,      \* POST /v1/me/feed handlers between createPost and fanoutPost
    response,     \* the feed returned by the step just taken, if it was a getNewsFeed call
    created,      \* history: the posts createPost returned, in call order
    enqueued,     \* history: the messages handed to enqueue, in call order
    dispatched,   \* history: the messages handed to process, in call order
    completed     \* history: the messages whose process() finished, in order

storeVars == <<newsFeeds, posts, hotCache, users, socialGraph, actions, counters>>
queueVars == <<workers, queue, inProcess>>
historyVars == <<created, enqueued, dispatched, completed>>
vars == <<clock, storeVars, queueVars, pending, response, historyVars>>

\* ------------------------------------------------------------- JS helpers
\* Map.has
MapHas(m, k) == k \in DOMAIN m
\* Map.get(k) || dflt
MapGet(m, k, dflt) == IF k \in DOMAIN m THEN m[k] ELSE dflt
\* Map.set(k, v)
MapSet(m, k, v) == [x \in DOMAIN m \cup {k} |-> IF x = k THEN v ELSE m[x]]
\* new Map()
EmptyMap == [x \in {} |-> TRUE]
\* The elements of an array or of a Set.
Range(s) == {s[i] : i \in 1..Len(s)}
\* Set.add: a JavaScript Set keeps insertion order and no duplicates.
SetAdd(s, x) == IF x \in Range(s) THEN s ELSE Append(s, x)
\* Array.slice(0, n) for n >= 0
Slice(s, n) == SubSeq(s, 1, IF n < Len(s) THEN n ELSE Len(s))
Min(S) == CHOOSE x \in S : \A y \in S : x <= y

\* ------------------------------------------------------------ CacheLayer
\* CacheLayer.getNewsFeed(userId): newsFeeds.get(userId) || []
cacheGetNewsFeed(feeds, userId) == MapGet(feeds, userId, <<>>)

\* Mutant of addToNewsFeed: the splice is left out.
addToNewsFeedUncapped(feeds, userId, item) ==
    MapSet(feeds, userId, <<item>> \o MapGet(feeds, userId, <<>>))

\* Mutant of addToNewsFeed: push instead of unshift.
addToNewsFeedPush(feeds, userId, item) ==
    LET pushed == Append(MapGet(feeds, userId, <<>>), item)
    IN  MapSet(feeds, userId,
               IF Len(pushed) > FeedCapacity
               THEN SubSeq(pushed, 1, FeedCapacity)
               ELSE pushed)

\* CacheLayer.addToNewsFeed(userId, item): unshift, then splice(1000) when
\* the array is longer than 1000; returns the newsFeeds map after the call.
addToNewsFeed(feeds, userId, item) ==
    LET feed == MapGet(feeds, userId, <<>>)
        unshifted == <<item>> \o feed
        kept == IF Len(unshifted) > FeedCapacity
                THEN SubSeq(unshifted, 1, FeedCapacity)
                ELSE unshifted
    IN  MapSet(feeds, userId, kept)

\* CacheLayer.getPost(postId): hotCache.get(postId) || posts.get(postId)
getPost(hot, ps, postId) ==
    IF MapHas(hot, postId) THEN Some(hot[postId])
    ELSE IF MapHas(ps, postId) THEN Some(ps[postId])
    ELSE Undefined

\* CacheLayer.setPost(post): the posts map and the hotCache map after the call.
setPost(hot, ps, post) ==
    [posts |-> MapSet(ps, post.id, post),
     hotCache |-> IF post.likeCount > HotThreshold
                  THEN MapSet(hot, post.id, post)
                  ELSE hot]

\* CacheLayer.getUser(userId)
getUser(us, userId) == IF MapHas(us, userId) THEN Some(us[userId]) ELSE Undefined

\* CacheLayer.setUser(user)
setUser(us, user) == MapSet(us, user.id, user)

\* The socialGraph keys `followers_${userId}` and `following_${userId}`: the
\* two prefixes differ in their eighth character, so a key determines its
\* prefix and its user id, and the pair stands for the string.
followersKey(userId) == <<"followers", userId>>
followingKey(userId) == <<"following", userId>>

\* CacheLayer.getFollowers(userId): Array.from(the Set, or [])
getFollowers(graph, userId) == MapGet(graph, followersKey(userId), <<>>)

\* CacheLayer.getFollowing(userId)
getFollowing(graph, userId) == MapGet(graph, followingKey(userId), <<>>)

\* Mutant of addFollower: only the followers index is updated.
addFollowerOneWay(graph, userId, followerId) ==
    MapSet(graph, followersKey(userId),
           SetAdd(MapGet(graph, followersKey(userId), <<>>), followerId))

\* CacheLayer.addFollower(userId, followerId): the socialGraph after the call.
addFollower(graph, userId, followerId) ==
    LET followers == SetAdd(MapGet(graph, followersKey(userId), <<>>), followerId)
        g1 == MapSet(graph, followersKey(userId), followers)
        following == SetAdd(MapGet(g1, followingKey(followerId), <<>>), userId)
    IN  MapSet(g1, followingKey(followerId), following)

\* CacheLayer.hasLiked(userId, postId): actions.get(userId)?.get(postId) || false
hasLiked(acts, userId, postId) ==
    MapHas(acts, userId) /\ MapHas(acts[userId], postId) /\ acts[userId][postId]

\* CacheLayer.getCounters(postId): counters.get(postId) || {likes: 0, replies: 0}
getCounters(cs, postId) == MapGet(cs, postId, [likes |-> 0, replies |-> 0])

\* CacheLayer.likePost(userId, postId): the actions, counters, posts and
\* hotCache maps after the call.  `post` is the object getPost returns, so
\* the write to post.likeCount is seen through every map that holds that
\* object: through hotCache when the post came from it, and through posts,
\* where setPost stores the object again.
likePost(acts, cs, hot, ps, userId, postId) ==
    LET userActions == MapSet(MapGet(acts, userId, EmptyMap), postId, TRUE)
        old == getCounters(cs, postId)
        counter == [old EXCEPT !.likes = old.likes + 1]
        found == getPost(hot, ps, postId)
    IN  IF found = Undefined
        THEN [actions |-> MapSet(acts, userId, userActions),
              counters |-> MapSet(cs, postId, counter),
              posts |-> ps,
              hotCache |-> hot]
        ELSE LET post == [found[1] EXCEPT !.likeCount = counter.likes]
                 aliased == IF MapHas(hot, postId) THEN MapSet(hot, postId, post) ELSE hot
                 stored == setPost(aliased, ps, post)
             IN  [actions |-> MapSet(acts, userId, userActions),
                  counters |-> MapSet(cs, postId, counter),
                  posts |-> stored.posts,
                  hotCache |-> stored.hotCache]

\* ------------------------------------------------- MessageQueue and workers
\* The loop of FanoutWorker.process: addToNewsFeed(friendId, newsFeedItem)
\* for each friendId of the message, in array order.
RECURSIVE addToEachFeed(_, _, _)
addToEachFeed(feeds, friendIds, item) ==
    IF friendIds = <<>> THEN feeds
    ELSE addToEachFeed(addToNewsFeed(feeds, Head(friendIds), item), Tail(friendIds), item)

\* Mutant of availableWorker: the first worker, busy or not.
availableWorkerFirst(ws) == 1

\* workers.find((w) => !w.isBusy()): the index of the first idle worker, 0
\* when find returns undefined.
availableWorker(ws) ==
    LET idle == {i \in 1..Len(ws) : ~ws[i].busy}
    IN  IF idle = {} THEN 0 ELSE Min(idle)

\* Mutant of process: the author's own feed receives the item too.
processAuthorToo(w, message) ==
    /\ workers' = [workers EXCEPT ![w].busy = TRUE]
    /\ newsFeeds' = addToEachFeed(newsFeeds, Append(message.friendIds, message.userId),
                                  [postId |-> message.postId, timestamp |-> clock])
    /\ inProcess' = [inProcess EXCEPT ![w] = Some(message)]
    /\ dispatched' = Append(dispatched, message)

\* Mutant of process: the call suspends after its first append (an await
\* inside the loop).
processFirstOnly(w, message) ==
    /\ workers' = [workers EXCEPT ![w].busy = TRUE]
    /\ newsFeeds' = addToEachFeed(newsFeeds, SubSeq(message.friendIds, 1, 1),
                                  [postId |-> message.postId, timestamp |-> clock])
    /\ inProcess' = [inProcess EXCEPT ![w] = Some(message)]
    /\ dispatched' = Append(dispatched, message)

\* Mutant of process: the followers are read when the job runs, not taken
\* from the message.
processLiveFollowers(w, message) ==
    /\ workers' = [workers EXCEPT ![w].busy = TRUE]
    /\ newsFeeds' = addToEachFeed(newsFeeds, getFollowers(socialGraph, message.userId),
                                  [postId |-> message.postId, timestamp |-> clock])
    /\ inProcess' = [inProcess EXCEPT ![w] = Some(message)]
    /\ dispatched' = Append(dispatched, message)

\* FanoutWorker.process(message) up to its await: busy = true, the item is
\* added to every friend's feed, and the call suspends on the timer.
process(w, message) ==
    /\ workers' = [workers EXCEPT ![w].busy = TRUE]
    /\ newsFeeds' = addToEachFeed(newsFeeds, message.friendIds,
                                  [postId |-> message.postId, timestamp |-> clock])
    /\ inProcess' = [inProcess EXCEPT ![w] = Some(message)]
    /\ dispatched' = Append(dispatched, message)

\* FanoutWorker.process(message) when cache.addToNewsFeed throws for the
\* k-th friend: busy = true, the friends before the k-th have their item,
\* the exception leaves the loop and rejects the promise of the call, which
\* nobody awaits; the await of line 188 and busy = false are never reached,
\* so no suspended call is left for worker w.
processThrows(w, message, k) ==
    /\ workers' = [workers EXCEPT ![w].busy = TRUE]
    /\ newsFeeds' = addToEachFeed(newsFeeds, SubSeq(message.friendIds, 1, k - 1),
                                  [postId |-> message.postId, timestamp |-> clock])
    /\ inProcess' = [inProcess EXCEPT ![w] = Undefined]
    /\ dispatched' = Append(dispatched, message)

\* Mutant of processQueue: pop (the newest job) instead of shift.
processQueueLifo(q) ==
    IF Len(q) = 0
    THEN queue' = q /\ UNCHANGED <<workers, newsFeeds, inProcess, dispatched>>
    ELSE LET w == availableWorker(workers)
         IN  IF w # 0
             THEN queue' = SubSeq(q, 1, Len(q) - 1) /\ process(w, q[Len(q)])
             ELSE queue' = q /\ UNCHANGED <<workers, newsFeeds, inProcess, dispatched>>

\* MessageQueue.processQueue() on the backlog q.
processQueue(q) ==
    IF Len(q) = 0
    THEN queue' = q /\ UNCHANGED <<workers, newsFeeds, inProcess, dispatched>>
    ELSE LET w == availableWorker(workers)
         IN  IF w # 0
             THEN queue' = Tail(q) /\ process(w, Head(q))
             ELSE queue' = q /\ UNCHANGED <<workers, newsFeeds, inProcess, dispatched>>

\* MessageQueue.enqueue(message): push, then processQueue.
enqueue(message) ==
    /\ enqueued' = Append(enqueued, message)
    /\ processQueue(Append(queue, message))

\* MessageQueue.enqueue(message) when the process call it starts throws in
\* one of its appends: the rejected promise is not awaited, so enqueue and
\* its callers return normally.
enqueueThrows(message) ==
    LET q == Append(queue, message)
        w == availableWorker(workers)
    IN  /\ w # 0
        /\ enqueued' = Append(enqueued, message)
        /\ queue' = Tail(q)
        /\ \E k \in 1..Len(Head(q).friendIds) : processThrows(w, Head(q), k)

\* FanoutWorker.process after its await: the 100 ms timer of worker w fires
\* and busy = false.  Nothing else runs on completion.
processDone(w) ==
    /\ w \in 1..Len(workers)
    /\ workers[w].busy
    /\ inProcess[w] # Undefined
    /\ workers' = [workers EXCEPT ![w].busy = FALSE]
    /\ inProcess' = [inProcess EXCEPT ![w] = Undefined]
    /\ completed' = completed \o inProcess[w]
    /\ response' = Undefined
    /\ UNCHANGED <<clock, storeVars, queue, pending, created, enqueued, dispatched>>

\* ----------------------------------------------------------------- services
\* PostService.createPost(userId, content, imageUrl, videoUrl), called by the
\* POST /v1/me/feed handler, which then awaits before it calls fanoutPost.
\* The id `post_${Date.now()}_${suffix}` is digits, "_" and a base-36 suffix:
\* the string determines both parts, and the pair <<time, suffix>> stands for
\* it.  Both reads of Date.now() fall into the same clock value.
createPost(userId, content) ==
    /\ \E suffix \in RandomSuffixes :
         LET post == [id |-> <<clock, suffix>>,
                      userId |-> userId,
                      content |-> content,
                      imageUrl |-> Undefined,
                      videoUrl |-> Undefined,
                      timestamp |-> clock,
                      likeCount |-> 0,
                      replyCount |-> 0]
             stored == setPost(hotCache, posts, post)
         IN  /\ posts' = stored.posts
             /\ hotCache' = stored.hotCache
             /\ created' = Append(created, post)
             /\ pending' = Append(pending, [postId |-> post.id, userId |-> userId])
    /\ response' = Undefined
    /\ UNCHANGED <<clock, newsFeeds, users, socialGraph, actions, counters,
                   queueVars, enqueued, dispatched, completed>>

\* Mutant of fanoutPost: no early return for an empty follower list.
fanoutPostAlways ==
    /\ pending # <<>>
    /\ enqueue([postId |-> Head(pending).postId,
                userId |-> Head(pending).userId,
                friendIds |-> getFollowers(socialGraph, Head(pending).userId)])
    /\ pending' = Tail(pending)
    /\ response' = Undefined
    /\ UNCHANGED <<clock, posts, hotCache, users, socialGraph, actions, counters,
                   created, completed>>

\* FanoutService.fanoutPost(postId, userId): the continuation of the oldest
\* POST /v1/me/feed handler that has created its post.
fanoutPost ==
    /\ pending # <<>>
    /\ LET postId == Head(pending).postId
           userId == Head(pending).userId
           followers == getFollowers(socialGraph, userId)
       IN  IF Len(followers) = 0
           THEN UNCHANGED <<queueVars, newsFeeds, enqueued, dispatched>>
           ELSE enqueue([postId |-> postId, userId |-> userId, friendIds |-> followers])
    /\ pending' = Tail(pending)
    /\ response' = Undefined
    /\ UNCHANGED <<clock, posts, hotCache, users, socialGraph, actions, counters,
                   created, completed>>

\* FanoutService.fanoutPost(postId, userId) when a feed append of the job it
\* gets dispatched throws (the store is unavailable for one follower).
fanoutPostThrows ==
    /\ pending # <<>>
    /\ LET postId == Head(pending).postId
           userId == Head(pending).userId
           followers == getFollowers(socialGraph, userId)
       IN  /\ Len(followers) # 0
           /\ enqueueThrows([postId |-> postId, userId |-> userId, friendIds |-> followers])
    /\ pending' = Tail(pending)
    /\ response' = Undefined
    /\ UNCHANGED <<clock, posts, hotCache, users, socialGraph, actions, counters,
                   created, completed>>

\* The loop of NewsFeedService.getNewsFeed over the sliced feed items.
RECURSIVE hydrate(_, _)
hydrate(userId, feedItems) ==
    IF feedItems = <<>> THEN <<>>
    ELSE LET item == Head(feedItems)
             found == getPost(hotCache, posts, item.postId)
         IN  (IF found = Undefined THEN <<>>
              ELSE LET post == found[1]
                       author == getUser(users, post.userId)
                       cnt == getCounters(counters, post.id)
                   IN  <<[id |-> post.id,
                          userId |-> post.userId,
                          content |-> post.content,
                          imageUrl |-> post.imageUrl,
                          videoUrl |-> post.videoUrl,
                          timestamp |-> post.timestamp,
                          author |-> IF author = Undefined THEN Undefined
                                     ELSE Some([username |-> author[1].username,
                                                profilePicture |-> author[1].profilePicture]),
                          likeCount |-> cnt.likes,
                          replyCount |-> cnt.replies,
                          liked |-> hasLiked(actions, userId, post.id)]>>)
             \o hydrate(userId, Tail(feedItems))

\* Mutant of hydratedFeed: the stored feed is not cut to the limit.
hydratedFeedUnsliced(userId, limit) ==
    hydrate(userId, cacheGetNewsFeed(newsFeeds, userId))

\* NewsFeedService.getNewsFeed(userId, limit): the hydrated feed it returns.
hydratedFeed(userId, limit) ==
    hydrate(userId, Slice(cacheGetNewsFeed(newsFeeds, userId), limit))

\* ----------------------------------------------------------- HTTP handlers
\* GET /v1/me/feed, and direct calls of getNewsFeed with another limit.
getNewsFeed(userId, limit) ==
    /\ response' = Some([userId |-> userId, limit |-> limit,
                         feed |-> hydratedFeed(userId, limit)])
    /\ UNCHANGED <<clock, storeVars, queueVars, pending, historyVars>>

\* Mutant of follow: the two arguments of addFollower are swapped.
followSwapped(targetUserId, userId) ==
    /\ socialGraph' = addFollower(socialGraph, userId, targetUserId)
    /\ response' = Undefined
    /\ UNCHANGED <<clock, newsFeeds, posts, hotCache, users, actions, counters,
                   queueVars, pending, historyVars>>

\* POST /v1/users/follow: cache.addFollower(body.targetUserId, userId)
follow(targetUserId, userId) ==
    /\ socialGraph' = addFollower(socialGraph, targetUserId, userId)
    /\ response' = Undefined
    /\ UNCHANGED <<clock, newsFeeds, posts, hotCache, users, actions, counters,
                   queueVars, pending, historyVars>>

\* POST /v1/posts/like: cache.likePost(userId, body.postId)
like(userId, postId) ==
    /\ LET after == likePost(actions, counters, hotCache, posts, userId, postId)
       IN  /\ actions' = after.actions
           /\ counters' = after.counters
           /\ posts' = after.posts
           /\ hotCache' = after.hotCache
    /\ response' = Undefined
    /\ UNCHANGED <<clock, newsFeeds, users, socialGraph, queueVars, pending,
                   historyVars>>

\* Time passes: Date.now() moves on.
Tick ==
    /\ clock < MaxTime
    /\ clock' = clock + 1
    /\ response' = Undefined
    /\ UNCHANGED <<storeVars, queueVars, pending, historyVars>>

\* ------------------------------------------------------------------- Init
\* initSampleData: three users, and user2 -> user1, user3 -> user1,
\* user3 -> user2 follow edges.
sampleUsers ==
    LET user(id, name) == [id |-> id, username |-> name,
                           profilePicture |-> "https://example.com/" \o name \o ".jpg"]
    IN  setUser(setUser(setUser(EmptyMap, user("user1", "alice")),
                        user("user2", "bob")),
                user("user3", "charlie"))

sampleGraph ==
    addFollower(addFollower(addFollower(EmptyMap, "user1", "user2"),
                            "user1", "user3"),
                "user2", "user3")

\* new MessageQueue(workerCount): workerCount idle workers with ids 0..n-1.
newWorkers(workerCount) == [i \in 1..workerCount |-> [id |-> i - 1, busy |-> FALSE]]

\* The module-level construction of src/index.ts followed by initSampleData,
\* with the given feeds and posts in the cache.  The pool size is the
\* constructor's argument; every size from 1 to MaxWorkers is covered.  The
\* histories record the calls made from this state on.
InitWith(feeds, ps) ==
    /\ clock = 0
    /\ \E workerCount \in 1..MaxWorkers :
         /\ workers = newWorkers(workerCount)
         /\ inProcess = [i \in 1..workerCount |-> Undefined]
    /\ queue = <<>>
    /\ newsFeeds = feeds
    /\ posts = ps
    /\ hotCache = EmptyMap
    /\ users = sampleUsers
    /\ socialGraph = sampleGraph
    /\ actions = EmptyMap
    /\ counters = EmptyMap
    /\ pending = <<>>
    /\ response = Undefined
    /\ created = <<>>
    /\ enqueued = <<>>
    /\ dispatched = <<>>
    /\ completed = <<>>

\* The state right after start-up: nothing published yet.
Init == InitWith(EmptyMap, EmptyMap)

Next ==
    \/ /\ Len(created) < MaxPosts
       /\ \E req \in PostRequests : createPost(req[1], req[2])
    \/ fanoutPost
    \/ \E w \in 1..MaxWorkers : processDone(w)
    \/ \E req \in FollowRequests : follow(req[1], req[2])
    \/ \E userId \in Likers, postId \in LikedPostIds :
          /\ getCounters(counters, postId).likes < MaxLikes
          /\ like(userId, postId)
    \/ \E userId \in Readers, limit \in Limits : getNewsFeed(userId, limit)
    \/ Tick

Spec == Init /\ [][Next]_vars

\* The publishing pipeline alone (publish, follow, fanout, worker timers),
\* with room for a backlog of several jobs behind a busy pool.
QueueNext ==
    \/ /\ Len(created) < MaxJobs
       /\ \E req \in PostRequests : createPost(req[1], req[2])
    \/ fanoutPost
    \/ \E w \in 1..MaxWorkers : processDone(w)
    \/ \E req \in FollowRequests : follow(req[1], req[2])

QueueSpec == Init /\ [][QueueNext]_vars

\* A server that has been running: user2 published n posts before time 0, one
\* per millisecond, and each was fanned out to its follower user3 (most
\* recent first in the feed).  No like was given and no worker is busy.
priorPostId(i) == <<0 - i, "a">>
priorFeed(n) == [i \in 1..n |-> [postId |-> priorPostId(i), timestamp |-> 0 - i]]
priorPosts(n) ==
    [id \in {priorPostId(i) : i \in 1..n} |->
        [id |-> id, userId |-> "user2", content |-> Some("hello"),
         imageUrl |-> Undefined, videoUrl |-> Undefined, timestamp |-> id[1],
         likeCount |-> 0, replyCount |-> 0]]
\* Lengths of user3's feed that put the next appends at the capacity.
PriorLengths == {FeedCapacity - 1, FeedCapacity}

FeedInit ==
    \E n \in PriorLengths :
        InitWith([u \in {"user3"} |-> priorFeed(n)], priorPosts(n))

\* Publishing into the long feed: publish, fanout, worker timers.
FeedNext ==
    \/ /\ Len(created) < MaxPosts
       /\ \E req \in PostRequests : createPost(req[1], req[2])
    \/ fanoutPost
    \/ \E w \in 1..MaxWorkers : processDone(w)

FeedSpec == FeedInit /\ [][FeedNext]_vars

\* A post that becomes popular: publish, fanout, worker timers, and likes of
\* one post until its counter has passed the hot-cache threshold.
HotNext ==
    \/ /\ Len(created) < MaxPosts
       /\ \E req \in PostRequests : createPost(req[1], req[2])
    \/ fanoutPost
    \/ \E w \in 1..MaxWorkers : processDone(w)
    \/ \E userId \in Likers, postId \in LikedPostIds :
          /\ getCounters(counters, postId).likes < HotThreshold + MaxLikes
          /\ like(userId, postId)

HotSpec == Init /\ [][HotNext]_vars

\* The publishing pipeline over a store whose feed appends can fail.
FaultNext ==
    \/ /\ Len(created) < MaxPosts
       /\ \E req \in PostRequests : createPost(req[1], req[2])
    \/ fanoutPost
    \/ fanoutPostThrows
    \/ \E w \in 1..MaxWorkers : processDone(w)
    \/ \E req \in FollowRequests : follow(req[1], req[2])

FaultSpec == Init /\ [][FaultNext]_vars

\* The timer of a busy worker fires: setTimeout(resolve, 100) always
\* resolves.  Requests are the environment's and carry no fairness.
QueueFairSpec == QueueSpec /\ \A w \in 1..MaxWorkers : WF_vars(processDone(w))
FaultFairSpec == FaultSpec /\ \A w \in 1..MaxWorkers : WF_vars(processDone(w))

\* ======================================================================
\* Properties
\* ======================================================================
\* The entries of userId's stored feed, as post ids.
feedPostIds(userId) ==
    LET feed == cacheGetNewsFeed(newsFeeds, userId)
    IN  [i \in 1..Len(feed) |-> feed[i].postId]

\* Whether userId's stored feed holds an entry for postId.
inFeed(userId, postId) == postId \in Range(feedPostIds(userId))

\* C1: every job handed to enqueue is eventually dispatched and executed:
\* the i-th enqueue is eventually followed by a state in which that job has
\* been handed to a worker and every follower of the job has its entry,
\* given only that busy workers finish.
C1_EveryJobIsExecuted ==
    \A i \in 1..MaxJobs :
        (Len(enqueued) >= i) ~>
            (/\ Len(dispatched) >= i
             /\ dispatched[i] = enqueued[i]
             /\ \A f \in Range(enqueued[i].friendIds) : inFeed(f, enqueued[i].postId))

\* C2: the like counter of a post equals the number of distinct users who
\* liked it, so a repeated like(U, P) counts once.
C2_LikeCountIsDistinctLikers ==
    \A p \in LikedPostIds :
        MapHas(posts, p) =>
            getCounters(counters, p).likes =
                Cardinality({u \in UserIds : hasLiked(actions, u, p)})

\* The jobs dispatched so far that list userId among their friendIds.
jobsFor(userId) ==
    SelectSeq(dispatched, LAMBDA m : userId \in Range(m.friendIds))

\* C3: no stored feed is ever longer than the capacity.
C3_FeedWithinCapacity ==
    \A u \in DOMAIN newsFeeds : Len(newsFeeds[u]) <= FeedCapacity

\* A feed at the capacity that two jobs have appended to since the start:
\* whatever its length was, the second append met a full feed.
C3_Witness ==
    \E u \in DOMAIN newsFeeds :
        Len(newsFeeds[u]) = FeedCapacity /\ Len(jobsFor(u)) >= 2

\* C4: the step that dispatches a job puts the job's item at the head of
\* each follower's feed; a feed that held exactly the capacity loses its last
\* entry and keeps the others in order, a shorter feed loses nothing.
C4_AppendDropsOnlyTheOldest ==
    [][Len(dispatched') > Len(dispatched) =>
        LET m == dispatched'[Len(dispatched')]
            item == [postId |-> m.postId, timestamp |-> clock]
        IN  \A u \in Range(m.friendIds) :
                LET old == cacheGetNewsFeed(newsFeeds, u)
                    new == cacheGetNewsFeed(newsFeeds', u)
                IN  /\ new # <<>>
                    /\ new[1] = item
                    /\ Len(old) = FeedCapacity =>
                         /\ Len(new) = FeedCapacity
                         /\ SubSeq(new, 2, FeedCapacity) = SubSeq(old, 1, FeedCapacity - 1)
                    /\ Len(old) < FeedCapacity => Tail(new) = old
    ]_vars

\* user3's feed is full, starts with a job's item and ends with the entry
\* that was third from the end of the longest initial feed: appends at the
\* capacity have dropped the entries behind it.
C4_Witness ==
    /\ Len(dispatched) >= 1
    /\ Len(cacheGetNewsFeed(newsFeeds, "user3")) = FeedCapacity
    /\ newsFeeds["user3"][FeedCapacity].postId = priorPostId(FeedCapacity - 2)
    /\ \E i \in 1..Len(dispatched) : newsFeeds["user3"][1].postId = dispatched[i].postId

\* A is among getFollowers(B) exactly when B is among getFollowing(A).
indexesAreInverse ==
    \A a \in UserIds, b \in UserIds :
        (a \in Range(getFollowers(socialGraph, b)))
            <=> (b \in Range(getFollowing(socialGraph, a)))

\* C5: the two follow indexes are inverses of each other in every state, and
\* right after a follow request for (B, A), A is a follower of B and B is
\* followed by A.
C5_FollowIndexesAreInverse ==
    /\ indexesAreInverse
    /\ [][/\ socialGraph' # socialGraph => indexesAreInverse'
          /\ \A req \in FollowRequests :
                follow(req[1], req[2]) =>
                    /\ req[2] \in Range(getFollowers(socialGraph', req[1]))
                    /\ req[1] \in Range(getFollowing(socialGraph', req[2]))
       ]_vars

\* Both follow requests have been served, the self-follow among them.
C5_Witness ==
    /\ "user2" \in Range(getFollowers(socialGraph, "1"))
    /\ "1" \in Range(getFollowing(socialGraph, "user2"))
    /\ "user2" \in Range(getFollowers(socialGraph, "user2"))

\* C6: the jobs dispatched so far are the first jobs enqueued, in the same
\* order, and the backlog holds the rest in order (none skipped, reordered or
\* dispatched twice); with one worker the jobs also complete in that order.
C6_FifoDispatch ==
    /\ enqueued = dispatched \o queue
    /\ Len(workers) = 1 =>
         /\ Len(completed) <= Len(enqueued)
         /\ completed = SubSeq(enqueued, 1, Len(completed))

\* One worker, three different jobs: two dispatched, one still waiting.
C6_Witness ==
    /\ Len(workers) = 1
    /\ Len(enqueued) = 3
    /\ Cardinality(Range(enqueued)) = 3
    /\ Len(dispatched) = 2
    /\ Len(completed) = 1
    /\ Len(queue) = 1

\* A sequence back to front.
Reverse(seq) == [i \in 1..Len(seq) |-> seq[Len(seq) + 1 - i]]

\* C7: a step changes a feed only by dispatching a job that lists the feed's
\* user, and changes no other table of the store then; so every feed holds
\* exactly the posts of the jobs that list its user, latest first, however
\* the jobs of different workers interleave.
C7_FanoutTouchesOnlyItsFollowers ==
    [][/\ \A u \in UserIds :
            cacheGetNewsFeed(newsFeeds', u) # cacheGetNewsFeed(newsFeeds, u) =>
                /\ Len(dispatched') = Len(dispatched) + 1
                /\ u \in Range(dispatched'[Len(dispatched')].friendIds)
       /\ dispatched' # dispatched =>
            UNCHANGED <<posts, hotCache, users, socialGraph, actions, counters>>
       /\ \A u \in UserIds :
            feedPostIds(u)' = Reverse([i \in 1..Len(jobsFor(u)') |-> jobsFor(u)'[i].postId])
    ]_vars

\* Two workers are busy with jobs whose follower lists are disjoint, and
\* each follower's feed holds its own job's post alone.
C7_Witness ==
    /\ Len(workers) = 2
    /\ inProcess[1] # Undefined
    /\ inProcess[2] # Undefined
    /\ Range(inProcess[1][1].friendIds) \cap Range(inProcess[2][1].friendIds) = {}
    /\ \A i \in 1..2 : \A u \in Range(inProcess[i][1].friendIds) :
            feedPostIds(u) = <<inProcess[i][1].postId>>

\* C8: the fanoutPost step for an author without followers changes no table
\* of the store, no worker, not the backlog, and enqueues and dispatches
\* nothing.
C8_FanoutWithoutFollowersIsNoOp ==
    [][(/\ pending # <<>>
        /\ pending' = Tail(pending)
        /\ Len(getFollowers(socialGraph, Head(pending).userId)) = 0)
       => UNCHANGED <<storeVars, queueVars, enqueued, dispatched, completed>>
    ]_vars

\* A post has been created and its fanoutPost call has returned, and no job
\* was ever enqueued.
C8_Witness ==
    /\ Len(created) >= 1
    /\ pending = <<>>
    /\ enqueued = <<>>

\* C9: once the job of post P by author A (a registered user) has completed,
\* getNewsFeed(F, 20) of every follower F of that job, whose feed is no
\* longer than the limit, holds exactly one item for P, and that item has
\* the content A published, A as its author with A's username, and
\* liked = false unless F liked P.
C9_CompletedFanoutShowsThePost ==
    \A i \in 1..Len(completed) :
        LET m == completed[i]
        IN  MapHas(users, m.userId) =>
            \A f \in Range(m.friendIds) :
                LET items == SelectSeq(hydratedFeed(f, DefaultLimit),
                                       LAMBDA it : it.id = m.postId)
                IN  Len(cacheGetNewsFeed(newsFeeds, f)) <= DefaultLimit =>
                    /\ Len(items) = 1
                    /\ items[1].userId = m.userId
                    /\ \A j \in 1..Len(created) :
                          (created[j].id = m.postId /\ created[j].userId = m.userId)
                              => items[1].content = created[j].content
                    /\ items[1].author # Undefined
                    /\ items[1].author[1].username = users[m.userId].username
                    /\ ~hasLiked(actions, f, m.postId) => ~items[1].liked

\* C10: a feed read by U reports, for every post U has liked, liked = true
\* and the live like counter, which is 1 when U is the only user who liked
\* the post.
C10_ReadAfterLikeShowsIt ==
    response # Undefined =>
        LET r == response[1]
        IN  \A k \in 1..Len(r.feed) :
                LET it == r.feed[k]
                IN  hasLiked(actions, r.userId, it.id) =>
                    /\ it.liked
                    /\ it.likeCount = getCounters(counters, it.id).likes
                    /\ {u \in UserIds : hasLiked(actions, u, it.id)} = {r.userId}
                         => it.likeCount = 1

\* C11: every post id in the hot cache is in the primary table with the
\* same field values, so getPost returns what the primary table holds; and
\* a post whose like count has passed the threshold is in the hot cache.
C11_HotCacheAgreesWithPosts ==
    /\ \A id \in DOMAIN hotCache :
          /\ MapHas(posts, id)
          /\ hotCache[id] = posts[id]
          /\ getPost(hotCache, posts, id) = Some(posts[id])
    /\ \A id \in DOMAIN posts :
          posts[id].likeCount > HotThreshold => MapHas(hotCache, id)

\* C12: the posts createPost has returned have pairwise different ids, so
\* no createPost call wrote over the table entry of an earlier one.
C12_PostIdsAreUnique ==
    \A i, j \in 1..Len(created) : i # j => created[i].id # created[j].id

\* C13: the step that dispatches a job leaves at most one follower of the
\* job without the job's item (one failed append does not stop the appends
\* to the others), and a worker that is busy is eventually idle again.
C13_FanoutSurvivesAFailedAppend ==
    /\ [][Len(dispatched') > Len(dispatched) =>
            LET m == dispatched'[Len(dispatched')]
                missed == {f \in Range(m.friendIds) :
                              cacheGetNewsFeed(newsFeeds', f) = cacheGetNewsFeed(newsFeeds, f)}
            IN  Cardinality(missed) <= 1
         ]_vars
    /\ \A w \in 1..MaxWorkers :
          (w <= Len(workers) /\ workers[w].busy)
              ~> (w <= Len(workers) /\ ~workers[w].busy)

\* C14: a createPost call whose content is missing changes neither the
\* post table, the hot cache, the counters, the feeds nor the backlog.
C14_MalformedCreateIsRejected ==
    [][\A req \in PostRequests :
            (req[2] = Undefined /\ createPost(req[1], req[2]))
                => UNCHANGED <<posts, hotCache, counters, newsFeeds, queue>>
    ]_vars

\* C15: between operations a job waits in the backlog only while every
\* worker is busy: a dispatch attempt follows every enqueue and every
\* completion, so no state has a waiting job and an idle worker.
C15_NoJobWaitsBesideAnIdleWorker ==
    queue # <<>> => \A w \in 1..Len(workers) : workers[w].busy

\* The workers that are busy.
busyWorkers == {w \in 1..Len(workers) : workers[w].busy}

\* C16: a worker turns Busy only by being handed the job just dispatched
\* while it was Idle, turns Idle only by finishing that job, and its job
\* never changes while it stays Busy; every dispatch hands one job to one
\* Idle worker; so the jobs in execution are one per busy worker and at
\* most the size of the pool.
C16_WorkerRunsOneJobAtATime ==
    [][/\ \A w \in 1..Len(workers) :
            /\ (~workers[w].busy /\ workers'[w].busy) =>
                  /\ Len(dispatched') = Len(dispatched) + 1
                  /\ inProcess[w] = Undefined
                  /\ inProcess'[w] = Some(dispatched'[Len(dispatched')])
            /\ (workers[w].busy /\ ~workers'[w].busy) =>
                  /\ inProcess'[w] = Undefined
                  /\ completed' = completed \o inProcess[w]
                  /\ dispatched' = dispatched
            /\ (workers[w].busy /\ workers'[w].busy) => inProcess'[w] = inProcess[w]
       /\ dispatched' # dispatched =>
            /\ Len(dispatched') = Len(dispatched) + 1
            /\ Cardinality(busyWorkers') = Cardinality(busyWorkers) + 1
       /\ Len(dispatched') - Len(completed') = Cardinality(busyWorkers')
       /\ Len(dispatched') - Len(completed') <= Len(workers')
       /\ Len(workers') = Len(workers)
    ]_vars

\* A pool of two: both workers are busy with different jobs and a third
\* job, handed to neither, waits in the backlog.
C16_Witness ==
    /\ Len(workers) = 2
    /\ busyWorkers = {1, 2}
    /\ inProcess[1] # inProcess[2]
    /\ Len(queue) = 1

\* C17: every post of the post table carries the like count its counter
\* holds (0 when it has no counter).
C17_LikeCountMatchesCounter ==
    \A id \in DOMAIN posts :
        posts[id].likeCount = getCounters(counters, id).likes

\* C18: a getNewsFeed(userId, limit) step changes nothing in the store or
\* the queue, and returns one item for each of the first `limit` stored
\* entries whose post is found, in stored order, with the post's fields;
\* so at most `limit` items, and none for a user without a feed.
C18_ReadReturnsTheFirstEntries ==
    [][response' # Undefined =>
        LET r == response'[1]
            stored == cacheGetNewsFeed(newsFeeds, r.userId)
            first == [i \in 1..(IF r.limit < Len(stored) THEN r.limit ELSE Len(stored))
                          |-> stored[i]]
            kept == SelectSeq(first, LAMBDA e : MapHas(hotCache, e.postId)
                                                    \/ MapHas(posts, e.postId))
        IN  /\ UNCHANGED <<storeVars, queueVars, pending>>
            /\ Len(r.feed) <= r.limit
            /\ Len(r.feed) = Len(kept)
            /\ \A k \in 1..Len(kept) :
                  LET post == IF MapHas(hotCache, kept[k].postId)
                              THEN hotCache[kept[k].postId]
                              ELSE posts[kept[k].postId]
                  IN  /\ r.feed[k].id = kept[k].postId
                      /\ r.feed[k].userId = post.userId
                      /\ r.feed[k].content = post.content
                      /\ r.feed[k].timestamp = post.timestamp
            /\ ~MapHas(newsFeeds, r.userId) => r.feed = <<>>
    ]_vars

\* A read with limit 1 of a feed that holds two entries for different
\* posts has returned the item of the more recent entry alone.
C18_Witness ==
    /\ response # Undefined
    /\ response[1].limit = 1
    /\ Len(cacheGetNewsFeed(newsFeeds, response[1].userId)) = 2
    /\ feedPostIds(response[1].userId)[1] # feedPostIds(response[1].userId)[2]
    /\ Len(response[1].feed) = 1
    /\ response[1].feed[1].id = feedPostIds(response[1].userId)[1]

\* C19: the job fanoutPost enqueues lists the author's followers of that
\* moment; the job is dispatched as it was enqueued, however long it waits;
\* a follow changes no feed and no waiting job; and the dispatch of a job
\* writes to no feed of a user the job does not list, even one who follows
\* the author by then.
C19_RecipientsAreFixedAtFanout ==
    [][/\ Len(enqueued') > Len(enqueued) =>
            /\ enqueued' = Append(enqueued, enqueued'[Len(enqueued')])
            /\ enqueued'[Len(enqueued')].friendIds
                  = getFollowers(socialGraph, enqueued'[Len(enqueued')].userId)
       /\ Len(enqueued') <= Len(enqueued) => enqueued' = enqueued
       /\ \A i \in 1..Len(dispatched') : dispatched'[i] = enqueued'[i]
       /\ socialGraph' # socialGraph =>
            UNCHANGED <<newsFeeds, queue, inProcess, enqueued, dispatched>>
       /\ Len(dispatched') > Len(dispatched) =>
            \A u \in UserIds \ Range(dispatched'[Len(dispatched')].friendIds) :
                cacheGetNewsFeed(newsFeeds', u) = cacheGetNewsFeed(newsFeeds, u)
    ]_vars

\* A job that waited in the backlog of a pool of one has been dispatched,
\* its author has a follower the job does not list, and that follower's
\* feed has no entry for the job's post.
C19_Witness ==
    /\ Len(workers) = 1
    /\ Len(dispatched) >= 2
    /\ Len(enqueued) = 3
    /\ \E u \in UserIds :
          /\ u \in Range(getFollowers(socialGraph, dispatched[2].userId))
          /\ u \notin Range(dispatched[2].friendIds)
          /\ ~inFeed(u, dispatched[2].postId)

\* C20: the step that dispatches a job appends the job's item to the feed
\* of every follower the job lists and leaves the worker busy with the job;
\* a fanoutPost call that finds the backlog empty and a worker idle is such
\* a step for its own job; the later completion writes no feed; so in every
\* state each feed has one entry per dispatched job that lists its user,
\* and no job is seen half delivered.
C20_FanoutWritesAreAtomic ==
    [][/\ Len(dispatched') > Len(dispatched) =>
            LET m == dispatched'[Len(dispatched')]
            IN  /\ \A f \in Range(m.friendIds) :
                      /\ Len(cacheGetNewsFeed(newsFeeds', f))
                            = Len(cacheGetNewsFeed(newsFeeds, f)) + 1
                      /\ cacheGetNewsFeed(newsFeeds', f)[1].postId = m.postId
                /\ \E w \in 1..Len(workers) :
                      /\ ~workers[w].busy
                      /\ workers'[w].busy
                      /\ inProcess'[w] = Some(m)
       /\ (/\ Len(enqueued') > Len(enqueued)
           /\ queue = <<>>
           /\ \E w \in 1..Len(workers) : ~workers[w].busy) =>
            /\ queue' = <<>>
            /\ dispatched' = Append(dispatched, enqueued'[Len(enqueued')])
       /\ dispatched' = dispatched => newsFeeds' = newsFeeds
       /\ \A u \in UserIds :
            Len(cacheGetNewsFeed(newsFeeds', u)) = Len(jobsFor(u)')
       /\ \A i \in 1..Len(dispatched') : \A f \in Range(dispatched'[i].friendIds) :
            dispatched'[i].postId \in Range(feedPostIds(f)')
    ]_vars

\* A job with two followers went from fanoutPost straight to a worker: the
\* worker is busy with it, nothing waits, and both followers have its post
\* as their most recent entry.
C20_Witness ==
    /\ queue = <<>>
    /\ pending = <<>>
    /\ \E w \in 1..Len(workers) :
          /\ workers[w].busy
          /\ inProcess[w] # Undefined
          /\ inProcess[w][1] = enqueued[Len(enqueued)]
          /\ Len(inProcess[w][1].friendIds) = 2
          /\ \A f \in Range(inProcess[w][1].friendIds) :
                feedPostIds(f)[1] = inProcess[w][1].postId

====
